---- MODULE Spec2Model ----
(***************************************************************************)
(* Model of app.py: the request-handling boundary of the location-search   *)
(* backend.  Module-level provider initialisation, the search_suggestions  *)
(* handler, the get_place_details handler with its persistence writes, and *)
(* the health check.                                                       *)
(*                                                                         *)
(* Strings that the code parses or case-folds (limit, latitude, longitude, *)
(* provider) are sequences of one-character strings; strings that it only  *)
(* tests for emptiness and passes on (query, place_id) are TLA+ strings.   *)
(* An optional request argument is a tuple of length 0 (missing, Python's  *)
(* None) or 1 (the value).                                                 *)
(***************************************************************************)
EXTENDS Integers, Sequences, FiniteSets, TLC

VARIABLES
    pc,                      \* position of the process: start-up steps, then the handler's position
    construction_fails,      \* the providers whose constructor raises in this run (environment)
    whoosh_provider,         \* module global: "unset", "None" or "provider"
    mapbox_provider,         \* module global
    google_places_provider,  \* module global
    search_orchestrator,     \* module global: <<>> until constructed, then <<slots>>
    request,                 \* the request being (or last) handled
    env,                     \* what the collaborators do for this request
    place,                   \* get_place_details' local variable `place`: <<>> or <<Place>>
    calls,                   \* the provider / orchestrator / storage calls made for this request
    write_outcome,           \* outcome of the persistence call that has returned
    errors_logged,           \* the logger.error lines written for this request
    response                 \* the response returned for this request

vars == <<pc, construction_fails, whoosh_provider, mapbox_provider,
          google_places_provider, search_orchestrator, request, env, place,
          calls, write_outcome, errors_logged, response>>

globals == <<construction_fails, whoosh_provider, mapbox_provider,
             google_places_provider, search_orchestrator>>

(***************************************************************************)
(* Bounds and program constants                                            *)
(***************************************************************************)
\* the largest number of matches a provider holds for a query
MaxMatches == 6

\* min(int(...), 5)
LimitCap == 5

\* request.args.get('limit', 5)
DefaultLimit == 5

(***************************************************************************)
(* Optional values and strings                                             *)
(***************************************************************************)
None == <<>>

Some(v) == <<v>>

IsNone(o) == Len(o) = 0

Value(o) == o[1]

Min(a, b) == IF a <= b THEN a ELSE b

Take(s, n) == IF n <= 0 THEN <<>> ELSE SubSeq(s, 1, Min(n, Len(s)))

DigitValue ==
    ("0" :> 0) @@ ("1" :> 1) @@ ("2" :> 2) @@ ("3" :> 3) @@ ("4" :> 4) @@
    ("5" :> 5) @@ ("6" :> 6) @@ ("7" :> 7) @@ ("8" :> 8) @@ ("9" :> 9)

IsDigit(c) == c \in DOMAIN DigitValue

IsSign(c) == c \in {"+", "-"}

RECURSIVE DigitsValue(_)
DigitsValue(s) ==
    IF Len(s) = 0 THEN 0
    ELSE 10 * DigitsValue(SubSeq(s, 1, Len(s) - 1)) + DigitValue[s[Len(s)]]

AllDigits(s) == Len(s) > 0 /\ \A i \in 1..Len(s) : IsDigit(s[i])

Unsigned(s) == IF Len(s) > 0 /\ IsSign(s[1]) THEN SubSeq(s, 2, Len(s)) ELSE s

Signed(s, n) == IF Len(s) > 0 /\ s[1] = "-" THEN 0 - n ELSE n

\* Python's int(str): an optional sign and one or more decimal digits,
\* ValueError otherwise.
ParseInt(s) ==
    IF AllDigits(Unsigned(s))
    THEN [ok |-> TRUE, val |-> Signed(s, DigitsValue(Unsigned(s)))]
    ELSE [ok |-> FALSE, val |-> 0]

DotAt(s) == IF \E i \in 1..Len(s) : s[i] = "."
            THEN CHOOSE i \in 1..Len(s) : s[i] = "." /\ \A j \in 1..(i - 1) : s[j] # "."
            ELSE 0

RECURSIVE Normalise(_, _)
\* a decimal m * 10^-f without trailing zeros in the fraction
Normalise(m, f) == IF f > 0 /\ m % 10 = 0 THEN Normalise(m \div 10, f - 1) ELSE <<m, f>>

\* Python's float(str) on plain decimal literals: an optional sign, digits
\* with at most one point and at least one digit; ValueError otherwise.
\* The value is the pair <<mantissa, fraction digits>>.
ParseFloat(s) ==
    LET u == Unsigned(s)
        d == DotAt(u)
        whole == IF d = 0 THEN u ELSE SubSeq(u, 1, d - 1)
        frac == IF d = 0 THEN <<>> ELSE SubSeq(u, d + 1, Len(u))
        digits == whole \o frac
    IN  IF AllDigits(digits)
        THEN [ok |-> TRUE, val |-> Normalise(Signed(s, DigitsValue(digits)), Len(frac))]
        ELSE [ok |-> FALSE, val |-> <<0, 0>>]

LowerChar(c) ==
    CASE c = "A" -> "a" [] c = "C" -> "c" [] c = "L" -> "l" [] c = "O" -> "o"
      [] OTHER -> c

\* str.lower()
Lower(s) == [i \in 1..Len(s) |-> LowerChar(s[i])]

S_local == <<"l", "o", "c", "a", "l">>

S_mapbox == <<"m", "a", "p", "b", "o", "x">>

S_google == <<"g", "o", "o", "g", "l", "e">>

S_all == <<"a", "l", "l">>

S_LOCAL == <<"L", "O", "C", "A", "L">>

S_bing == <<"b", "i", "n", "g">>

(***************************************************************************)
(* Module-level initialisation (start-up)                                  *)
(***************************************************************************)
Providers == {"whoosh", "mapbox", "google"}

\* a constructor's exception leaving the module body
TryConstruct_Propagates(name) ==
    IF name \in construction_fails
    THEN [slot |-> "unset", raised |-> TRUE]
    ELSE [slot |-> "provider", raised |-> FALSE]

\* try: X = Provider(...)  except Exception as e: logger.error(...); X = None
\* The constructor's exception is caught: the slot is None and nothing is
\* raised out of the module body.
TryConstruct(name) ==
    IF name \in construction_fails
    THEN [slot |-> "None", raised |-> FALSE]
    ELSE [slot |-> "provider", raised |-> FALSE]

\* the position after a construction step: an exception raised out of the
\* module body ends the process
AfterConstruct(name, next) == IF TryConstruct(name).raised THEN "crashed" ELSE next

Init ==
    /\ pc = "init_whoosh"
    /\ construction_fails \in SUBSET Providers
    /\ whoosh_provider = "unset"
    /\ mapbox_provider = "unset"
    /\ google_places_provider = "unset"
    /\ search_orchestrator = <<>>
    /\ request = [endpoint |-> "none"]
    /\ env = [matches |-> 0, error |-> "none"]
    /\ place = None
    /\ calls = <<>>
    /\ write_outcome = "none"
    /\ errors_logged = {}
    /\ response = [status |-> 0, kind |-> "none"]

perRequest == <<request, env, place, calls, write_outcome, errors_logged, response>>

InitWhooshProvider ==
    /\ pc = "init_whoosh"
    /\ whoosh_provider' = TryConstruct("whoosh").slot
    /\ pc' = AfterConstruct("whoosh", "init_mapbox")
    /\ UNCHANGED <<construction_fails, mapbox_provider, google_places_provider,
                   search_orchestrator, perRequest>>

InitMapboxProvider ==
    /\ pc = "init_mapbox"
    /\ mapbox_provider' = TryConstruct("mapbox").slot
    /\ pc' = AfterConstruct("mapbox", "init_google")
    /\ UNCHANGED <<construction_fails, whoosh_provider, google_places_provider,
                   search_orchestrator, perRequest>>

InitGooglePlacesProvider ==
    /\ pc = "init_google"
    /\ google_places_provider' = TryConstruct("google").slot
    /\ pc' = AfterConstruct("google", "init_orchestrator")
    /\ UNCHANGED <<construction_fails, whoosh_provider, mapbox_provider,
                   search_orchestrator, perRequest>>

InitSearchOrchestrator ==
    /\ pc = "init_orchestrator"
    /\ search_orchestrator' = Some([whoosh_provider |-> whoosh_provider,
                                    mapbox_provider |-> mapbox_provider,
                                    google_places_provider |-> google_places_provider])
    /\ pc' = "ready"
    /\ UNCHANGED <<construction_fails, whoosh_provider, mapbox_provider,
                   google_places_provider, perRequest>>

(***************************************************************************)
(* Collaborators: Place records, provider search, orchestrator search      *)
(***************************************************************************)
Place(source, id) ==
    [place_id |-> id, name |-> <<"name", id>>, address |-> <<"address", id>>,
     latitude |-> <<"lat", id>>, longitude |-> <<"lon", id>>,
     source |-> source, additional_data |-> <<"data", id>>]

\* provider.search(query, limit, ...): the first `limit` of the provider's
\* n matches for the query
ProviderSearch(source, query, limit, n) ==
    [i \in 1..Min(n, limit) |-> Place(source, <<query, i>>)]

\* search_orchestrator.search(query, limit, latitude, longitude): the
\* present providers' results, local index first, truncated to limit
OrchestratorSearch(query, limit, n) ==
    LET slots == Value(search_orchestrator)
        part(slot, source) ==
            IF slot = "provider" THEN ProviderSearch(source, query, limit, n) ELSE <<>>
    IN  Take(part(slots.whoosh_provider, "local")
               \o part(slots.mapbox_provider, "mapbox")
               \o part(slots.google_places_provider, "google"), limit)

(***************************************************************************)
(* Responses                                                               *)
(***************************************************************************)
ErrorResponse(status, message) == [status |-> status, kind |-> "error", body |-> message]

Suggestion(result) ==
    [id |-> result.place_id, name |-> result.name, address |-> result.address,
     source |-> result.source,
     location |-> [latitude |-> result.latitude, longitude |-> result.longitude]]

SuggestionsResponse(results) ==
    [status |-> 200, kind |-> "suggestions",
     body |-> [i \in 1..Len(results) |-> Suggestion(results[i])]]

PlaceResponse(p) ==
    [status |-> 200, kind |-> "place",
     body |-> [id |-> p.place_id, name |-> p.name, address |-> p.address,
               location |-> [latitude |-> p.latitude, longitude |-> p.longitude],
               source |-> p.source, additional_data |-> p.additional_data]]

(***************************************************************************)
(* search_suggestions                                                      *)
(***************************************************************************)
\* the limit passed on as requested
CapLimit_Uncapped(n) == n

\* min(int(request.args.get('limit', 5)), 5)
CapLimit(n) == Min(n, LimitCap)

\* int(request.args.get('limit', 5))
RequestedLimit(args) ==
    IF IsNone(args.limit) THEN [ok |-> TRUE, val |-> DefaultLimit]
    ELSE ParseInt(Value(args.limit))

\* request.args.get('provider', 'all').lower()
RequestedProvider(args) ==
    IF IsNone(args.provider) THEN S_all ELSE Lower(Value(args.provider))

\* if X is not None: X = float(X)
OptionalFloat(arg) ==
    IF IsNone(arg) THEN [ok |-> TRUE, val |-> None]
    ELSE [ok |-> ParseFloat(Value(arg)).ok, val |-> Some(ParseFloat(Value(arg)).val)]

\* `not query`: None or the empty string
Falsy(arg) == IsNone(arg) \/ Value(arg) = ""

\* a direct search that calls the provider without looking at its slot
DirectSearch_Unchecked(slot, target, source, unavailable, call, e) ==
    [calls |-> <<call>>,
     response |-> IF e.error # "none" \/ slot = "None" THEN ErrorResponse(500, e.error)
                  ELSE SuggestionsResponse(
                           ProviderSearch(source, call.query, call.limit, e.matches))]

\* A direct call of one provider's search: 503 when the slot is None,
\* otherwise the call, whose exception goes to the handler's except clause.
DirectSearch(slot, target, source, unavailable, call, e) ==
    IF slot = "None"
    THEN [calls |-> <<>>, response |-> ErrorResponse(503, unavailable)]
    ELSE [calls |-> <<call>>,
          response |-> IF e.error # "none" THEN ErrorResponse(500, e.error)
                       ELSE SuggestionsResponse(
                                ProviderSearch(source, call.query, call.limit, e.matches))]

\* The whole handler: the calls it makes and the response it returns, for
\* the request arguments args when the collaborators behave as e.
search_suggestions(args, e) ==
    LET limit == RequestedLimit(args)
        provider == RequestedProvider(args)
        latitude == OptionalFloat(args.latitude)
        longitude == OptionalFloat(args.longitude)
        query == Value(args.query)
    IN  IF ~limit.ok \/ ~latitude.ok \/ ~longitude.ok
        THEN [calls |-> <<>>, response |-> ErrorResponse(500, "ValueError")]
        ELSE IF Falsy(args.query)
        THEN [calls |-> <<>>, response |-> ErrorResponse(400, "Query parameter is required")]
        ELSE IF provider = S_local
        THEN DirectSearch(whoosh_provider, "whoosh", "local",
                 "Local search provider is not available",
                 [target |-> "whoosh", op |-> "search", query |-> query,
                  limit |-> CapLimit(limit.val)], e)
        ELSE IF provider = S_mapbox
        THEN DirectSearch(mapbox_provider, "mapbox", "mapbox",
                 "Mapbox search provider is not available",
                 [target |-> "mapbox", op |-> "search", query |-> query,
                  limit |-> CapLimit(limit.val),
                  latitude |-> latitude.val, longitude |-> longitude.val], e)
        ELSE IF provider = S_google
        THEN DirectSearch(google_places_provider, "google", "google",
                 "Google Places search provider is not available",
                 [target |-> "google", op |-> "search", query |-> query,
                  limit |-> CapLimit(limit.val),
                  latitude |-> latitude.val, longitude |-> longitude.val], e)
        ELSE IF provider = S_all
        THEN [calls |-> <<[target |-> "orchestrator", op |-> "search", query |-> query,
                           limit |-> CapLimit(limit.val),
                           latitude |-> latitude.val, longitude |-> longitude.val]>>,
              response |-> IF e.error # "none" THEN ErrorResponse(500, e.error)
                           ELSE SuggestionsResponse(
                                    OrchestratorSearch(query, CapLimit(limit.val), e.matches))]
        ELSE [calls |-> <<>>,
              response |-> ErrorResponse(400,
                  "Invalid provider. Must be one of: local, mapbox, google, all")]

(***************************************************************************)
(* The requests and collaborator behaviours explored                       *)
(***************************************************************************)
Queries == {None, Some(""), Some("coffee")}

Limits == {None, Some(<<"5">>), Some(<<"1", "0", "0">>), Some(<<"7">>), Some(<<"3">>),
           Some(<<"0">>), Some(<<"-", "1">>), Some(<<"a", "b", "c">>), Some(<<>>)}

ProviderNames == {None, Some(S_local), Some(S_mapbox), Some(S_google), Some(S_all),
                  Some(S_LOCAL), Some(S_bing)}

Latitudes == {None, Some(<<"4", "0", ".", "5">>), Some(<<"n", "o", "r", "t", "h">>)}

Longitudes == {None, Some(<<"-", "7", "4">>), Some(<<"x">>)}

SuggestionArgs ==
    [query : Queries, limit : Limits, provider : ProviderNames,
     latitude : Latitudes, longitude : Longitudes]

MatchCounts == {0, 1, MaxMatches}

SearchEnvs == [matches : MatchCounts, error : {"none", "ProviderError"}]

SearchSuggestions ==
    /\ pc = "ready"
    /\ \E args \in SuggestionArgs, e \in SearchEnvs :
          /\ request' = [endpoint |-> "suggestions", args |-> args]
          /\ env' = e
          /\ calls' = search_suggestions(args, e).calls
          /\ response' = search_suggestions(args, e).response
    /\ pc' = "responded"
    /\ UNCHANGED <<place, write_outcome, errors_logged, globals>>

(***************************************************************************)
(* get_place_details                                                       *)
(***************************************************************************)
\* `not source`: None or the empty string
FalsyChars(arg) == IsNone(arg) \/ Len(Value(arg)) = 0

\* A vendor's get_place_details(place_id): 503 when the slot is None,
\* otherwise the call; its exception goes to the handler's except clause.
VendorDetails(slot, target, unavailable, place_id, e) ==
    IF slot = "None"
    THEN [calls |-> <<>>, place |-> None, response |-> ErrorResponse(503, unavailable)]
    ELSE IF e.error # "none"
    THEN [calls |-> <<[target |-> target, op |-> "get_place_details", place_id |-> place_id]>>,
          place |-> None, response |-> ErrorResponse(500, e.error)]
    ELSE [calls |-> <<[target |-> target, op |-> "get_place_details", place_id |-> place_id]>>,
          place |-> Some(Place(target, place_id)), response |-> ErrorResponse(0, "")]

\* The handler up to the assignment of `place`: the calls made, and either
\* the place or the response of an early return.
ResolvePlace(args, e) ==
    LET place_id == Value(args.place_id)
        source == Value(args.source)
        results == ProviderSearch("local", place_id, 1, e.matches)
        search == [target |-> "whoosh", op |-> "search", query |-> place_id, limit |-> 1]
    IN  IF Falsy(args.place_id) \/ FalsyChars(args.source)
        THEN [calls |-> <<>>, place |-> None,
              response |-> ErrorResponse(400, "place_id and source parameters are required")]
        ELSE IF source = S_local
        THEN IF whoosh_provider = "None"
             THEN [calls |-> <<>>, place |-> None,
                   response |-> ErrorResponse(503, "Local search provider is not available")]
             ELSE IF e.error # "none"
             THEN [calls |-> <<search>>, place |-> None, response |-> ErrorResponse(500, e.error)]
             ELSE IF Len(results) = 0
             THEN [calls |-> <<search>>, place |-> None,
                   response |-> ErrorResponse(404, "Place not found")]
             ELSE [calls |-> <<search>>, place |-> Some(results[1]),
                   response |-> ErrorResponse(0, "")]
        ELSE IF source = S_mapbox
        THEN VendorDetails(mapbox_provider, "mapbox",
                 "Mapbox search provider is not available", place_id, e)
        ELSE IF source = S_google
        THEN VendorDetails(google_places_provider, "google",
                 "Google Places search provider is not available", place_id, e)
        ELSE [calls |-> <<>>, place |-> None,
              response |-> ErrorResponse(400,
                  "Invalid source. Must be one of: local, mapbox, google")]

\* if source != 'local' and whoosh_provider is not None
SavesPlace(args) == Value(args.source) # S_local /\ whoosh_provider # "None"

\* a persistence exception reaching the handler's outer except clause
DetailsResponse_Propagates(p, logged) ==
    IF logged # {} THEN ErrorResponse(500, "persistence") ELSE PlaceResponse(p)

\* The response once the persistence block is over: its exceptions are
\* caught and logged, and the handler goes on to return the place.
DetailsResponse(p, logged) == PlaceResponse(p)

PlaceIds == {None, Some(""), Some("X")}

Sources == {None, Some(<<>>), Some(S_local), Some(S_mapbox), Some(S_google),
            Some(S_LOCAL), Some(S_bing)}

DetailsArgs == [place_id : PlaceIds, source : Sources]

DetailsEnvs == [matches : MatchCounts, error : {"none", "NotFoundError", "ProviderError"}]

\* From the start of the handler to its first return, or to the call of
\* whoosh_provider.save_place(place).
GetPlaceDetails ==
    /\ pc = "ready"
    /\ \E args \in DetailsArgs, e \in DetailsEnvs :
          LET r == ResolvePlace(args, e) IN
          /\ request' = [endpoint |-> "details", args |-> args]
          /\ env' = e
          /\ place' = r.place
          /\ IF IsNone(r.place)
             THEN /\ calls' = r.calls
                  /\ response' = r.response
                  /\ pc' = "responded"
             ELSE IF SavesPlace(args)
             THEN /\ calls' = Append(r.calls, [target |-> "whoosh", op |-> "save_place",
                                               place |-> Value(r.place)])
                  /\ response' = response
                  /\ pc' = "index_write"
             ELSE /\ calls' = r.calls
                  /\ response' = DetailsResponse(Value(r.place), {})
                  /\ pc' = "responded"
    /\ UNCHANGED <<write_outcome, errors_logged, globals>>

\* whoosh_provider.save_place(place) returns or raises
IndexWriteCompletes ==
    /\ pc = "index_write"
    /\ write_outcome' \in {"ok", "raise"}
    /\ pc' = "index_returned"
    /\ UNCHANGED <<request, env, place, calls, errors_logged, response, globals>>

\* After save_place: on its exception the outer except clause logs and the
\* handler returns; otherwise PlaceStorage() is constructed and
\* storage.save_place(place) is called, inside the inner try.
AfterIndexWrite ==
    /\ pc = "index_returned"
    /\ IF write_outcome = "raise"
       THEN /\ errors_logged' = errors_logged \cup {"Error saving place"}
            /\ calls' = calls
            /\ response' = DetailsResponse(Value(place), errors_logged')
            /\ pc' = "responded"
       ELSE \E constructed \in BOOLEAN :
               IF constructed
               THEN /\ calls' = calls \o <<[target |-> "storage", op |-> "PlaceStorage"],
                                           [target |-> "storage", op |-> "save_place",
                                            place |-> Value(place)]>>
                    /\ errors_logged' = errors_logged
                    /\ response' = response
                    /\ pc' = "store_write"
               ELSE /\ calls' = Append(calls, [target |-> "storage", op |-> "PlaceStorage"])
                    /\ errors_logged' = errors_logged \cup {"Error saving to Firestore"}
                    /\ response' = DetailsResponse(Value(place), errors_logged')
                    /\ pc' = "responded"
    /\ write_outcome' = "none"
    /\ UNCHANGED <<request, env, place, globals>>

\* storage.save_place(place) returns or raises
StoreWriteCompletes ==
    /\ pc = "store_write"
    /\ write_outcome' \in {"ok", "raise"}
    /\ pc' = "store_returned"
    /\ UNCHANGED <<request, env, place, calls, errors_logged, response, globals>>

\* After storage.save_place: the inner except clause logs its exception;
\* the handler returns the place.
AfterStoreWrite ==
    /\ pc = "store_returned"
    /\ errors_logged' = IF write_outcome = "raise"
                        THEN errors_logged \cup {"Error saving to Firestore"}
                        ELSE errors_logged
    /\ response' = DetailsResponse(Value(place), errors_logged')
    /\ write_outcome' = "none"
    /\ pc' = "responded"
    /\ UNCHANGED <<request, env, place, calls, globals>>

\* health_check
HealthCheck ==
    /\ pc = "ready"
    /\ request' = [endpoint |-> "health"]
    /\ env' = [matches |-> 0, error |-> "none"]
    /\ calls' = <<>>
    /\ response' = [status |-> 200, kind |-> "health", body |-> "ok"]
    /\ pc' = "responded"
    /\ UNCHANGED <<place, write_outcome, errors_logged, globals>>

\* app.run: the request is over, its request-scoped state is dropped and
\* the server takes the next request
ServeNext ==
    /\ pc = "responded"
    /\ pc' = "ready"
    /\ request' = [endpoint |-> "none"]
    /\ env' = [matches |-> 0, error |-> "none"]
    /\ place' = None
    /\ calls' = <<>>
    /\ write_outcome' = "none"
    /\ errors_logged' = {}
    /\ response' = [status |-> 0, kind |-> "none"]
    /\ UNCHANGED globals

(***************************************************************************)
(* Properties                                                              *)
(***************************************************************************)
Responded == pc = "responded"

IsSuggestions == request.endpoint = "suggestions"

IsDetails == request.endpoint = "details"

Called(target, op) == \E i \in 1..Len(calls) : calls[i].target = target /\ calls[i].op = op

SearchCalls == {i \in 1..Len(calls) : calls[i].op = "search"}

PersistenceAttempted ==
    Called("whoosh", "save_place") \/ Called("storage", "PlaceStorage")
        \/ Called("storage", "save_place")

\* a details request whose place was resolved by a vendor provider
ResolvedNonLocal ==
    IsDetails /\ ~IsNone(place) /\ Value(request.args.source) \in {S_mapbox, S_google}

Slot(name) ==
    CASE name = S_local -> whoosh_provider
      [] name = S_mapbox -> mapbox_provider
      [] name = S_google -> google_places_provider

SingleProviders == {S_local, S_mapbox, S_google}

\* the suggestion request's input is malformed
MalformedSuggestion(args) ==
    \/ Falsy(args.query)
    \/ ~IsNone(args.limit) /\ ~ParseInt(Value(args.limit)).ok
    \/ ~IsNone(args.latitude) /\ ~ParseFloat(Value(args.latitude)).ok
    \/ ~IsNone(args.longitude) /\ ~ParseFloat(Value(args.longitude)).ok

\* the details request's input is malformed
MalformedDetails(args) == Falsy(args.place_id) \/ FalsyChars(args.source)

Malformed ==
    \/ IsSuggestions /\ MalformedSuggestion(request.args)
    \/ IsDetails /\ MalformedDetails(request.args)

\* C1: when a details request resolved from mapbox or google has been
\* answered, a failed Local-Index save_place has not kept the durable store
\* insert from being attempted, and a failed durable store insert has not
\* kept the Local-Index write from being attempted.
C1_WritesIndependent ==
    (Responded /\ ResolvedNonLocal) =>
        /\ "Error saving place" \in errors_logged => Called("storage", "PlaceStorage")
        /\ "Error saving to Firestore" \in errors_logged => Called("whoosh", "save_place")

\* C2: every answer to a details request whose place a vendor provider
\* resolved is the success response carrying that place, whatever the
\* persistence writes and the construction of the store handle did.
C2_WriteFailuresNeverSurface ==
    (Responded /\ ResolvedNonLocal) =>
        /\ response.status = 200
        /\ response = PlaceResponse(Value(place))

C2_Witness ==
    /\ Responded /\ ResolvedNonLocal
    /\ Called("storage", "save_place")
    /\ "Error saving to Firestore" \in errors_logged
    /\ response.status = 200

\* C3: a details request resolved from a non-local source is eventually
\* answered, without waiting for the persistence writes to complete.
C3_ResponseDoesNotWaitForWrites ==
    (ResolvedNonLocal /\ ~Responded) ~> Responded

\* C4: an answered details request resolved from mapbox or google has
\* attempted the Local-Index save_place (when that provider is present) and
\* the durable store insert (also when it is absent); any other answered
\* details request has attempted no persistence write.
C4_BothWritesAttempted ==
    (Responded /\ IsDetails) =>
        IF ResolvedNonLocal
        THEN /\ whoosh_provider = "provider" => Called("whoosh", "save_place")
             /\ Called("storage", "PlaceStorage")
        ELSE ~PersistenceAttempted

\* C5: a request with malformed input is answered with a client error
\* (4xx) and no provider, orchestrator or storage call is made for it.
C5_MalformedInputIsClientError ==
    (Responded /\ Malformed) =>
        /\ response.status \in 400..499
        /\ calls = <<>>

\* a details request whose place id the matching provider could not resolve
ResolutionFailed ==
    /\ IsDetails /\ ~MalformedDetails(request.args)
    /\ \/ /\ Value(request.args.source) = S_local
          /\ Called("whoosh", "search")
          /\ env.error = "none" /\ env.matches = 0
       \/ /\ Value(request.args.source) \in {S_mapbox, S_google}
          /\ \/ Called("mapbox", "get_place_details")
             \/ Called("google", "get_place_details")
          /\ env.error = "NotFoundError"

\* C6: a details request whose resolution failed is answered not-found
\* (404) for every source, and no persistence write is attempted.
C6_ResolutionFailureIsNotFound ==
    (Responded /\ ResolutionFailed) =>
        /\ response.status = 404
        /\ ~PersistenceAttempted

\* the single provider the request names, if any
NamedProvider ==
    IF IsSuggestions THEN RequestedProvider(request.args)
    ELSE IF IsDetails /\ ~IsNone(request.args.source) THEN Value(request.args.source)
    ELSE <<>>

NamesAbsentProvider ==
    NamedProvider \in SingleProviders /\ Slot(NamedProvider) = "None"

\* C7 as stated: every request that names an absent single provider is
\* answered 503 and makes no call; a provider=all suggestion request is
\* never answered 503 and is forwarded to the orchestrator.
C7_AbsentProviderAlwaysUnavailable ==
    Responded =>
        /\ NamesAbsentProvider => (response.status = 503 /\ calls = <<>>)
        /\ (IsSuggestions /\ RequestedProvider(request.args) = S_all) =>
              (response.status # 503 /\ Called("orchestrator", "search"))

\* C7 amended: a request that names an absent single provider makes no
\* call at all; it is answered 503 when its input is well-formed and with
\* the input's error (400 or 500) otherwise.  A provider=all suggestion
\* request is never answered 503, and when its input is well-formed it
\* makes exactly one call, to the orchestrator, whatever providers are
\* absent.
C7_AbsentProviderUnavailable ==
    Responded =>
        /\ NamesAbsentProvider =>
              /\ calls = <<>>
              /\ ~Malformed => response.status = 503
              /\ Malformed => response.status \in {400, 500}
        /\ (IsSuggestions /\ RequestedProvider(request.args) = S_all) =>
              /\ response.status # 503
              /\ ~Malformed => (Len(calls) = 1 /\ Called("orchestrator", "search"))
              /\ Malformed => calls = <<>>

C7_Witness ==
    /\ Responded /\ IsSuggestions /\ ~Malformed
    /\ RequestedProvider(request.args) = S_local
    /\ whoosh_provider = "None" /\ mapbox_provider = "provider"
    /\ response.status = 503

\* C8: the limit forwarded by a suggestion request never exceeds 5, and a
\* request whose limit is omitted or at least 5 makes the calls and gets
\* the response of the same request with limit=5, forwarding exactly 5.
C8_LimitCapped ==
    (Responded /\ IsSuggestions) =>
        /\ \A i \in SearchCalls : calls[i].limit <= 5
        /\ (RequestedLimit(request.args).ok /\ RequestedLimit(request.args).val >= 5) =>
              /\ \A i \in SearchCalls : calls[i].limit = 5
              /\ LET same == search_suggestions(
                                 [request.args EXCEPT !.limit = Some(<<"5">>)], env)
                 IN  calls = same.calls /\ response = same.response

C8_Witness ==
    /\ Responded /\ IsSuggestions
    /\ request.args.limit = Some(<<"1", "0", "0">>)
    /\ Called("google", "search")
    /\ response.status = 200 /\ Len(response.body) = 5

Starting == pc \in {"init_whoosh", "init_mapbox", "init_google", "init_orchestrator"}

SlotFor(name) == IF name \in construction_fails THEN "None" ELSE "provider"

\* C9: start-up never ends in a fatal error; once it is over exactly the
\* providers whose construction failed are absent, the others are present
\* and the orchestrator holds these slots; no later step changes a slot.
C9_ConstructionFailuresIsolated ==
    /\ [](/\ pc # "crashed"
          /\ ~Starting =>
                /\ whoosh_provider = SlotFor("whoosh")
                /\ mapbox_provider = SlotFor("mapbox")
                /\ google_places_provider = SlotFor("google")
                /\ search_orchestrator =
                       Some([whoosh_provider |-> whoosh_provider,
                             mapbox_provider |-> mapbox_provider,
                             google_places_provider |-> google_places_provider]))
    /\ [][~Starting => UNCHANGED <<whoosh_provider, mapbox_provider,
                                   google_places_provider, search_orchestrator>>]_vars

C9_Witness ==
    /\ Responded /\ IsSuggestions
    /\ construction_fails = {"whoosh", "google"}
    /\ whoosh_provider = "None" /\ mapbox_provider = "provider"
    /\ google_places_provider = "None"
    /\ Called("orchestrator", "search") /\ response.status = 200

\* C10: every search call a suggestion request makes carries a limit of
\* at least 1.
C10_ForwardedLimitPositive ==
    (Responded /\ IsSuggestions) => \A i \in SearchCalls : calls[i].limit >= 1

Next ==
    \/ InitWhooshProvider
    \/ InitMapboxProvider
    \/ InitGooglePlacesProvider
    \/ InitSearchOrchestrator
    \/ SearchSuggestions
    \/ GetPlaceDetails
    \/ IndexWriteCompletes
    \/ AfterIndexWrite
    \/ StoreWriteCompletes
    \/ AfterStoreWrite
    \/ HealthCheck
    \/ ServeNext

Spec == Init /\ [][Next]_vars

\* The server thread runs the handler's own steps; when a collaborator's
\* call returns, and when a request arrives, is not up to this program.
FairSpec ==
    /\ Init /\ [][Next]_vars
    /\ WF_vars(InitWhooshProvider) /\ WF_vars(InitMapboxProvider)
    /\ WF_vars(InitGooglePlacesProvider) /\ WF_vars(InitSearchOrchestrator)
    /\ WF_vars(AfterIndexWrite) /\ WF_vars(AfterStoreWrite) /\ WF_vars(ServeNext)
====
